---------------------------- MODULE Spec2Model ----------------------------
(***************************************************************************)
(* A model of the Go binding lanl/sapi: the Problem data model             *)
(* (convenience.go: Canonicalize, couplerMap, energyOffset, ToIsing,       *)
(* ToQubo) and the asynchronous submission wrappers (async.go).            *)
(*                                                                         *)
(* A float64 coefficient is held as a fixed-point integer: the real r is   *)
(* the integer r * Unit.  Unit is a power of four large enough that every  *)
(* division by 2.0 or 4.0 a run performs is exact, as it is in binary      *)
(* floating point on the small dyadic values the model draws.              *)
(***************************************************************************)
EXTENDS Integers, Sequences, FiniteSets, TLC

\* ------------------------------------------------------------------ bounds
MaxLen == 3     \* entries of an input Problem
MaxIdx == 2     \* variable indices are 0..MaxIdx
MaxVal == 1     \* coefficients are -MaxVal..MaxVal (times Unit)
MaxCalls == 2   \* chained calls of Canonicalize / ToIsing / ToQubo
NJobs == 2      \* asynchronously submitted problems
MaxTimeout == 1 \* longest AwaitCompletion timeout, in clock ticks
MaxOps == 4     \* calls that allocate or release C-side resources in one run
NThreads == 2   \* goroutines that call methods of one shared Problem
MaxRows == 2    \* solutions handed to UnembedAnswer
MaxCols == 1    \* physical qubits in each of them

VARIABLES
    p,      \* the Problem the application holds (receiver of the first call)
    ops,    \* names of the Problem methods called so far, in order
    res,    \* res[k]: what call k returned, [prob |-> Problem, ofs |-> offset]
    thr,    \* thr[t]: how far goroutine t is in its call on p, and its locals
    jobs,   \* jobs[j]: the backend's job behind SubmittedProblem j and its handle
    call,   \* the AwaitCompletion call the application is blocked in, if any
    ret,    \* what the last call on a SubmittedProblem or a Solver returned
    mem,    \* the C-side resources allocated so far, in order of allocation
    ncalls  \* how many calls have allocated them

pvars == <<p, ops, res, thr>>
avars == <<jobs, call, ret>>
mvars == <<mem, ncalls>>
vars == <<pvars, avars, mvars>>

\* ----------------------------------------------------------- Problem model
\* The fixed-point scale of a float64 Value.
Unit == 4 ^ MaxCalls

ProblemEntry(i, j, v) == [I |-> i, J |-> j, Value |-> v]

Indices == 0 .. MaxIdx
Values == {v * Unit : v \in (0 - MaxVal) .. MaxVal}
Entries == {ProblemEntry(i, j, v) : i \in Indices, j \in Indices, v \in Values}

\* x / 2.0 and x / 4.0 on a fixed-point value.
Half(x) == x \div 2
Quarter(x) == x \div 4

\* Canonicalize, first loop: I <= J in each ProblemEntry.
OrientAlways(pe) == [pe EXCEPT !.I = pe.J, !.J = pe.I]
Orient(pe) == IF pe.I > pe.J THEN [pe EXCEPT !.I = pe.J, !.J = pe.I] ELSE pe

\* Canonicalize, the comparison handed to sort.Slice: by I, then by J.
lessIOnly(a, b) == a.I < b.I
less(a, b) ==
    CASE a.I < b.I -> TRUE
      [] a.I > b.I -> FALSE
      [] OTHER -> a.J < b.J

\* sort.Slice: on slices this short the library sorts by insertion, moving
\* each element left while it is less than its left neighbour.
RECURSIVE insertSorted(_, _)
insertSorted(s, e) ==
    IF s = <<>> THEN <<e>>
    ELSE IF less(e, s[Len(s)])
         THEN Append(insertSorted(SubSeq(s, 1, Len(s) - 1), e), s[Len(s)])
         ELSE Append(s, e)

RECURSIVE sortSlice(_)
sortSlice(s) ==
    IF s = <<>> THEN <<>>
    ELSE insertSorted(sortSlice(SubSeq(s, 1, Len(s) - 1)), s[Len(s)])

\* Canonicalize, last loop over p1[1..n]: a duplicate {I, J} adds its Value
\* to the last entry of p2, anything else is appended.
RECURSIVE mergeNoElse(_, _)
mergeNoElse(p1, n) ==
    IF n = 0 THEN <<>>
    ELSE LET p2 == mergeNoElse(p1, n - 1)
             pe == p1[n]
         IN  IF n > 1 /\ pe.I = p1[n - 1].I /\ pe.J = p1[n - 1].J
             THEN Append([p2 EXCEPT ![Len(p2)].Value = @ + pe.Value], pe)
             ELSE Append(p2, pe)

RECURSIVE mergeKeepFirst(_, _)
mergeKeepFirst(p1, n) ==
    IF n = 0 THEN <<>>
    ELSE LET p2 == mergeKeepFirst(p1, n - 1)
             pe == p1[n]
         IN  IF n > 1 /\ pe.I = p1[n - 1].I /\ pe.J = p1[n - 1].J
             THEN p2
             ELSE Append(p2, pe)

RECURSIVE mergeDuplicates(_, _)
mergeDuplicates(p1, n) ==
    IF n = 0 THEN <<>>
    ELSE LET p2 == mergeDuplicates(p1, n - 1)
             pe == p1[n]
         IN  IF n > 1 /\ pe.I = p1[n - 1].I /\ pe.J = p1[n - 1].J
             THEN [p2 EXCEPT ![Len(p2)].Value = @ + pe.Value]
             ELSE Append(p2, pe)

Canonicalize(q) ==
    LET p1 == sortSlice([k \in 1 .. Len(q) |-> Orient(q[k])])
    IN  mergeDuplicates(p1, Len(p1))

\* couplerMap: cMap[i] lists, in order, every coupler of q that touches i,
\* turned so that its I is i.  Field weights (I = J) are skipped.
RECURSIVE couplersOf(_, _, _)
couplersOf(q, n, i) ==
    IF n = 0 THEN <<>>
    ELSE LET rest == couplersOf(q, n - 1, i)
             pe == q[n]
         IN  IF pe.I = pe.J THEN rest
             ELSE IF pe.I = i THEN Append(rest, pe)
             ELSE IF pe.J = i THEN Append(rest, ProblemEntry(pe.J, pe.I, pe.Value))
             ELSE rest

couplerMap(q) ==
    LET keys == {q[k].I : k \in {n \in 1 .. Len(q) : q[n].I # q[n].J}}
                \cup {q[k].J : k \in {n \in 1 .. Len(q) : q[n].I # q[n].J}}
    IN  [i \in keys |-> couplersOf(q, Len(q), i)]

\* cMap[i] for a key the map may lack: Go yields the nil slice.
lookupEmpty(cMap, i) == <<>>
lookup(cMap, i) == IF i \in DOMAIN cMap THEN cMap[i] ELSE <<>>

RECURSIVE sumValues(_, _)
sumValues(s, n) == IF n = 0 THEN 0 ELSE sumValues(s, n - 1) + s[n].Value

\* energyOffset: he/2.0 + Je/4.0.
RECURSIVE sumField(_, _)
sumField(q, n) ==
    IF n = 0 THEN 0
    ELSE sumField(q, n - 1) + (IF q[n].I = q[n].J THEN q[n].Value ELSE 0)

RECURSIVE sumCoupler(_, _)
sumCoupler(q, n) ==
    IF n = 0 THEN 0
    ELSE sumCoupler(q, n - 1) + (IF q[n].I = q[n].J THEN 0 ELSE q[n].Value)

energyOffsetHalves(q) == Half(sumField(q, Len(q))) + Half(sumCoupler(q, Len(q)))
energyOffset(q) == Half(sumField(q, Len(q))) + Quarter(sumCoupler(q, Len(q)))

\* ToIsing: the entry loop over the canonical copy cp.
toIsingEntryNoCouplers(cMap, pe) ==
    IF pe.I = pe.J
    THEN [pe EXCEPT !.Value = Half(pe.Value)]
    ELSE [pe EXCEPT !.Value = Quarter(pe.Value)]

toIsingEntry(cMap, pe) ==
    IF pe.I = pe.J
    THEN LET elts == lookup(cMap, pe.I)
             v == sumValues(elts, Len(elts))
         IN  [pe EXCEPT !.Value = Half(pe.Value) + Quarter(v)]
    ELSE [pe EXCEPT !.Value = Quarter(pe.Value)]

ToIsing(q) ==
    LET cp == Canonicalize(q)
        cMap == couplerMap(cp)
    IN  [prob |-> [k \in 1 .. Len(cp) |-> toIsingEntry(cMap, cp[k])],
         ofs |-> energyOffset(cp)]

\* ToQubo: the entry loop over the canonical copy cp; the offset is that of
\* the converted problem qp, negated.
toQuboEntryNoCouplers(cMap, pe) ==
    IF pe.I = pe.J
    THEN [pe EXCEPT !.Value = pe.Value * 2]
    ELSE [pe EXCEPT !.Value = pe.Value * 4]

toQuboEntry(cMap, pe) ==
    IF pe.I = pe.J
    THEN LET elts == lookup(cMap, pe.I)
             v == sumValues(elts, Len(elts))
         IN  [pe EXCEPT !.Value = pe.Value * 2 - v * 2]
    ELSE [pe EXCEPT !.Value = pe.Value * 4]

ToQubo(q) ==
    LET cp == Canonicalize(q)
        cMap == couplerMap(cp)
        qp == [k \in 1 .. Len(cp) |-> toQuboEntry(cMap, cp[k])]
    IN  [prob |-> qp, ofs |-> 0 - energyOffset(qp)]

\* ------------------------------------------------ asynchronous submission
Jobs == 1 .. NJobs

\* SubmittedState (async.go), and "Unsubmitted" for a SubmittedProblem that
\* AsyncSolveIsing / AsyncSolveQubo has not yet returned.
SubmittedStates == {"Submitting", "Submitted", "Done", "Retrying", "Failed"}
RemoteStatuses ==
    {"Unknown", "Pending", "InProgress", "Completed", "Failed", "Canceled"}

NoError == [N |-> "OK", S |-> <<>>]

\* newErrorf(c, "%s", msg): a is handed to Sprintf as one slice argument, so
\* the text comes out in brackets.
newErrorf(c, msg) == [N |-> c, S |-> <<"[", msg, "]">>]

\* IsingResult{}: the zero value.
ZeroIsingResult == [Solutions |-> <<>>, Energies |-> <<>>, Occurrences |-> <<>>]

\* convertIsingResultToGo: the Go copy of the backend's result.
convertIsingResultToGo(cres) ==
    [Solutions |-> cres.solutions, Energies |-> cres.energies,
     Occurrences |-> cres.num_occurrences]

\* `ret != 0`: how Done and both AwaitCompletion turn the C int into a bool.
goBoolInverted(cret) == cret = 0
goBool(cret) == cret # 0

\* The arguments SubmittedProblem.AwaitCompletion hands to
\* sapi_awaitCompletion: &sp.cSp, 1, 1.
awaitSingleArgsNoneNeeded(j) == [handles |-> <<j>>, n |-> 1, minDone |-> 0]
awaitSingleArgs(j) == [handles |-> <<j>>, n |-> 1, minDone |-> 1]

\* The arguments AwaitCompletion(sps, minDone, timeout) hands over: the
\* handles of sps, len(sps), minDone.
awaitMultiArgsFirstOnly(sps, minDone) == [handles |-> sps, n |-> Len(sps), minDone |-> 1]
awaitMultiArgs(sps, minDone) == [handles |-> sps, n |-> Len(sps), minDone |-> minDone]

\* Result: a status other than SAPI_OK is returned as an Error with the zero
\* IsingResult, SAPI_OK as the converted result.
resultReturnIgnoringStatus(code, msg, cres) ==
    [result |-> convertIsingResultToGo(cres), err |-> NoError]
resultReturn(code, msg, cres) ==
    IF code # "OK"
    THEN [result |-> ZeroIsingResult, err |-> newErrorf(code, msg)]
    ELSE [result |-> convertIsingResultToGo(cres), err |-> NoError]

\* The backend library (dwave_sapi), from the contract the wrappers rely on.
NewJob ==
    [state |-> "Unsubmitted", remote |-> "Unknown", cancel |-> FALSE,
     resource |-> "none", held |-> FALSE]

\* sapi_asyncDone: nonzero when the job is Done.
sapi_asyncDone(j) == IF jobs[j].state = "Done" THEN 1 ELSE 0

\* How many of handles[1..n] are Done.
doneCount(handles, n) ==
    Cardinality({k \in 1 .. n : jobs[handles[k]].state = "Done"})

\* sapi_awaitCompletion may return cret: 1 once minDone of the handles are
\* Done, 0 when the timeout has elapsed first.
sapi_awaitCompletion(c, left, cret) ==
    \/ cret = 1 /\ doneCount(c.handles, c.n) >= c.minDone
    \/ cret = 0 /\ left = 0 /\ doneCount(c.handles, c.n) < c.minDone

\* sapi_asyncResult: the status code, message and result for job j.
sapi_asyncResult(j) ==
    CASE jobs[j].state # "Done" ->
            [code |-> "AsyncNotDone", msg |-> "problem is not done",
             cres |-> [solutions |-> <<>>, energies |-> <<>>, num_occurrences |-> <<>>]]
      [] jobs[j].remote = "Canceled" ->
            [code |-> "ProblemCanceled", msg |-> "problem cancelled",
             cres |-> [solutions |-> <<>>, energies |-> <<>>, num_occurrences |-> <<>>]]
      [] jobs[j].remote = "Failed" ->
            [code |-> "SolveFailed", msg |-> "solve failed",
             cres |-> [solutions |-> <<>>, energies |-> <<>>, num_occurrences |-> <<>>]]
      [] OTHER ->
            [code |-> "OK", msg |-> "",
             cres |-> [solutions |-> <<<<1>>>>, energies |-> <<0>>,
                       num_occurrences |-> <<1>>]]

\* The nil *ProblemStatus.
NilStatus == [State |-> "nil", LastGoodState |-> "nil", RemoteStatus |-> "nil"]

\* newErrorf(c, text) with a format that has no verb and no arguments:
\* Sprintf is still handed the empty slice a as one argument and appends
\* its complaint about it.
newErrorfNoArgs(c, text) == [N |-> c, S |-> <<text, "%!(EXTRA []interface {}=[])">>]

\* The timestamps the backend writes into sapi_ProblemStatus: the empty
\* string until the server has set the time, then an RFC 3339 time.
Timestamps == {"", "2017-06-01T12:00:00Z"}

\* time.Parse(time.RFC3339, s) returns a nil error.
timeParseOK(s) == s # ""

\* What time.Parse returns for a string it cannot parse: a
\* *time.ParseError, which is no sapi Error.
ParseError(s) == [Layout |-> "2006-01-02T15:04:05Z07:00", Value |-> s]

\* Status: a failed poll is returned as an Error; then each timestamp is
\* parsed and the error of time.Parse returned as it is; else the
\* ProblemStatus is filled from the fields of sapi_ProblemStatus.
statusReturn(code, cPs) ==
    CASE code # "OK" ->
            [status |-> NilStatus, err |-> newErrorfNoArgs(code, "sapi_asyncStatus failed")]
      [] ~timeParseOK(cPs.time_received) ->
            [status |-> NilStatus, err |-> ParseError(cPs.time_received)]
      [] ~timeParseOK(cPs.time_solved) ->
            [status |-> NilStatus, err |-> ParseError(cPs.time_solved)]
      [] OTHER ->
            [status |-> [State |-> cPs.state, LastGoodState |-> cPs.last_good_state,
                         RemoteStatus |-> cPs.remote_status],
             err |-> NoError]

\* sapi_asyncStatus may fill in cPs for job j: the state and remote status
\* of the job, as last good state the state itself unless it is Retrying
\* or Failed, a received time only once the server has answered and a
\* solved time only once the problem has ended.
sapi_asyncStatus(j, cPs) ==
    /\ cPs.state = jobs[j].state
    /\ cPs.remote_status = jobs[j].remote
    /\ cPs.last_good_state \in {"Submitting", "Submitted", "Done"}
    /\ jobs[j].state \in {"Submitting", "Submitted", "Done"} =>
          cPs.last_good_state = jobs[j].state
    /\ jobs[j].state \in {"Retrying", "Failed"} => cPs.last_good_state # "Done"
    /\ cPs.time_received # "" => jobs[j].remote # "Unknown"
    /\ cPs.time_solved # "" => jobs[j].remote \in {"Completed", "Failed", "Canceled"}

ProblemStatuses ==
    [state : SubmittedStates, last_good_state : SubmittedStates,
     remote_status : RemoteStatuses, time_received : Timestamps,
     time_solved : Timestamps]

\* No call in flight.  A call in flight holds the wrapper's own arguments
\* (sps, minDone), what it handed to sapi_awaitCompletion (c) and the time
\* left of its timeout.
NoArgs == [handles |-> <<>>, n |-> 0, minDone |-> 0]
Idle == [op |-> "idle", sps |-> <<>>, minDone |-> 0, c |-> NoArgs, left |-> 0]

\* A return: the method (op) and its SubmittedProblem (job), for an await
\* the arguments n and minDone, the bool returned (value) and why the
\* backend came back (cause), the error and IsingResult returned, and what
\* held as the call returned: the job's state (stateAt) and how many of the
\* awaited jobs were Done (ndone).  For a Result, second tells that the
\* return before it was a Result on the same job that returned data.
\* backend is the status code and message the C function reported, for
\* Status with the sapi_ProblemStatus it filled in; status is the
\* *ProblemStatus returned by Status.
NoReturn ==
    [op |-> "none", job |-> 0, n |-> 0, minDone |-> 0, value |-> FALSE,
     cause |-> "none", err |-> NoError, result |-> ZeroIsingResult,
     stateAt |-> "none", ndone |-> 0, panic |-> FALSE, second |-> FALSE,
     backend |-> [code |-> "OK", msg |-> ""], status |-> NilStatus]

\* The application can call a method of SubmittedProblem j: it holds it.
Callable(j) == jobs[j].held /\ jobs[j].resource = "live"

AsyncInit ==
    /\ jobs = [j \in Jobs |-> NewJob]
    /\ call = Idle
    /\ ret = NoReturn

\* The goroutines that share p, none of them in a call.
Threads == 1 .. NThreads
IdleThread == [op |-> "none", pc |-> "idle", p1 |-> <<>>, cp |-> <<>>, out |-> <<>>, ofs |-> 0]
ThreadInit == thr = [t \in Threads |-> IdleThread]

\* Nothing has been allocated on the C side.
MemInit ==
    /\ mem = <<>>
    /\ ncalls = 0

\* AsyncSolveIsing / AsyncSolveQubo: the backend either refuses the problem
\* (nil and an Error are returned) or creates the job, whose handle the new
\* SubmittedProblem wraps.
AsyncSolve(j) ==
    /\ call = Idle
    /\ jobs[j].state = "Unsubmitted"
    /\ \/ /\ jobs' = [jobs EXCEPT ![j] = [state |-> "Submitting", remote |-> "Unknown",
                                          cancel |-> FALSE, resource |-> "live",
                                          held |-> TRUE]]
          /\ ret' = [NoReturn EXCEPT !.op = "AsyncSolve", !.job = j,
                                     !.stateAt = "Submitting"]
       \/ /\ jobs' = jobs
          /\ ret' = [NoReturn EXCEPT !.op = "AsyncSolve", !.job = j,
                                     !.err = newErrorf("InvalidParameter", "bad problem"),
                                     !.stateAt = jobs[j].state]
    /\ UNCHANGED <<call, pvars, mvars>>

\* The server takes the problem into its queue.
BackendAccept(j) ==
    /\ jobs[j].state = "Submitting"
    /\ jobs' = [jobs EXCEPT ![j].state = "Submitted", ![j].remote = "Pending"]
    /\ UNCHANGED <<call, ret, pvars, mvars>>

\* The server starts to solve the problem.
BackendProgress(j) ==
    /\ jobs[j].state = "Submitted"
    /\ jobs[j].remote = "Pending"
    /\ jobs' = [jobs EXCEPT ![j].remote = "InProgress"]
    /\ UNCHANGED <<call, ret, pvars, mvars>>

\* The problem ends: solved, failed, or cancelled when that was asked for.
BackendFinish(j) ==
    /\ jobs[j].state = "Submitted"
    /\ \E r \in {"Completed", "Failed", "Canceled"} :
          /\ (r = "Canceled") => jobs[j].cancel
          /\ jobs' = [jobs EXCEPT ![j].state = "Done", ![j].remote = r]
    /\ UNCHANGED <<call, ret, pvars, mvars>>

\* A network or communication fault while submitting or polling.
NetworkFault(j) ==
    /\ jobs[j].state \in {"Submitting", "Submitted"}
    /\ \E s \in {"Retrying", "Failed"} : jobs' = [jobs EXCEPT ![j].state = s]
    /\ UNCHANGED <<call, ret, pvars, mvars>>

\* Connectivity is back.
NetworkRestore(j) ==
    /\ jobs[j].state = "Retrying"
    /\ jobs' = [jobs EXCEPT ![j].state = "Submitted"]
    /\ UNCHANGED <<call, ret, pvars, mvars>>

\* SubmittedProblem.Done.
CallDone(j) ==
    /\ call = Idle
    /\ Callable(j)
    /\ ret' = [NoReturn EXCEPT !.op = "Done", !.job = j,
                               !.value = goBool(sapi_asyncDone(j)),
                               !.stateAt = jobs[j].state]
    /\ UNCHANGED <<jobs, call, pvars, mvars>>

\* SubmittedProblem.Status: the poll fails, or fills in cPs.
CallStatus(j) ==
    /\ call = Idle
    /\ Callable(j)
    /\ \/ \E code \in {"NetworkError"} :
             LET g == statusReturn(code, <<>>)
             IN  ret' = [NoReturn EXCEPT !.op = "Status", !.job = j,
                                         !.backend = [code |-> code, msg |-> ""],
                                         !.err = g.err, !.status = g.status,
                                         !.stateAt = jobs[j].state]
       \/ \E cPs \in ProblemStatuses :
             /\ sapi_asyncStatus(j, cPs)
             /\ LET g == statusReturn("OK", cPs)
                IN  ret' = [NoReturn EXCEPT !.op = "Status", !.job = j,
                                            !.backend = [code |-> "OK", msg |-> "",
                                                         cPs |-> cPs],
                                            !.err = g.err, !.status = g.status,
                                            !.stateAt = jobs[j].state]
    /\ UNCHANGED <<jobs, call, pvars, mvars>>

\* SubmittedProblem.Cancel: sapi_cancelSubmittedProblem notes the request.
CallCancel(j) ==
    /\ call = Idle
    /\ Callable(j)
    /\ jobs' = [jobs EXCEPT ![j].cancel = (jobs[j].state # "Done")]
    /\ ret' = [NoReturn EXCEPT !.op = "Cancel", !.job = j,
                               !.stateAt = jobs[j].state]
    /\ UNCHANGED <<call, pvars, mvars>>

\* sapi_asyncRetry resumes a failed submission: the state after it.
sapi_asyncRetryAnyState(s) == "Retrying"
sapi_asyncRetry(s) == IF s = "Failed" THEN "Retrying" ELSE s

\* SubmittedProblem.Retry.
CallRetry(j) ==
    /\ call = Idle
    /\ Callable(j)
    /\ jobs' = [jobs EXCEPT ![j].state = sapi_asyncRetry(jobs[j].state)]
    /\ ret' = [NoReturn EXCEPT !.op = "Retry", !.job = j,
                              !.stateAt = jobs'[j].state]
    /\ UNCHANGED <<call, pvars, mvars>>

\* SubmittedProblem.AwaitCompletion(timeout) enters sapi_awaitCompletion.
AwaitSingleBegin(j) ==
    /\ call = Idle
    /\ Callable(j)
    /\ \E t \in 0 .. MaxTimeout :
          call' = [op |-> "AwaitSingle", sps |-> <<j>>, minDone |-> 1,
                   c |-> awaitSingleArgs(j), left |-> t]
    /\ ret' = NoReturn
    /\ UNCHANGED <<jobs, pvars, mvars>>

\* AwaitCompletion(sps, minDone, timeout) enters sapi_awaitCompletion; with
\* an empty sps the expression &cSps[0] panics.
AwaitMultiBegin ==
    /\ call = Idle
    /\ \E n \in 0 .. NJobs :
       \E sps \in [1 .. n -> {j \in Jobs : Callable(j)}] :
       \E minDone \in 0 .. NJobs + 1 :
       \E t \in 0 .. MaxTimeout :
          IF n = 0
          THEN /\ ret' = [NoReturn EXCEPT !.op = "AwaitMulti", !.minDone = minDone,
                                          !.panic = TRUE]
               /\ call' = call
          ELSE /\ call' = [op |-> "AwaitMulti", sps |-> sps, minDone |-> minDone,
                           c |-> awaitMultiArgs(sps, minDone), left |-> t]
               /\ ret' = NoReturn
    /\ UNCHANGED <<jobs, pvars, mvars>>

\* Time passes while the application is blocked.
Tick ==
    /\ call.op # "idle"
    /\ call.left > 0
    /\ call' = [call EXCEPT !.left = @ - 1]
    /\ UNCHANGED <<jobs, ret, pvars, mvars>>

\* sapi_awaitCompletion returns and the wrapper returns `ret != 0`.
AwaitReturn ==
    /\ call.op # "idle"
    /\ \E cret \in {0, 1} :
          /\ sapi_awaitCompletion(call.c, call.left, cret)
          /\ ret' = [NoReturn EXCEPT !.op = call.op, !.job = call.sps[1],
                                     !.n = Len(call.sps),
                                     !.minDone = call.minDone,
                                     !.value = goBool(cret),
                                     !.cause = IF cret = 1 THEN "completed" ELSE "timeout",
                                     !.stateAt = jobs[call.sps[1]].state,
                                     !.ndone = doneCount(call.sps, Len(call.sps))]
    /\ call' = Idle
    /\ UNCHANGED <<jobs, pvars, mvars>>

\* SubmittedProblem.Result.
CallResult(j) ==
    /\ call = Idle
    /\ Callable(j)
    /\ LET r == sapi_asyncResult(j)
           g == resultReturn(r.code, r.msg, r.cres)
       IN  ret' = [NoReturn EXCEPT !.op = "Result", !.job = j, !.err = g.err,
                                   !.result = g.result,
                                   !.stateAt = jobs[j].state,
                                   !.second = (ret.op = "Result" /\ ret.job = j
                                               /\ ret.err = NoError)]
    /\ UNCHANGED <<jobs, call, pvars, mvars>>

\* The application lets go of its last reference to SubmittedProblem j.
Drop(j) ==
    /\ call = Idle
    /\ jobs[j].held
    /\ jobs' = [jobs EXCEPT ![j].held = FALSE]
    /\ UNCHANGED <<call, ret, pvars, mvars>>

\* The finalizer set by AsyncSolveIsing / AsyncSolveQubo runs:
\* sapi_freeSubmittedProblem.
Finalize(j) ==
    /\ ~jobs[j].held
    /\ jobs[j].resource = "live"
    /\ jobs' = [jobs EXCEPT ![j].resource = "freed"]
    /\ UNCHANGED <<call, ret, pvars, mvars>>

Init ==
    /\ p = <<>>
    /\ ops = <<>>
    /\ res = <<>>
    /\ AsyncInit
    /\ MemInit
    /\ ThreadInit

Next ==
    \/ \E j \in Jobs : AsyncSolve(j)
    \/ \E j \in Jobs : BackendAccept(j)
    \/ \E j \in Jobs : BackendProgress(j)
    \/ \E j \in Jobs : BackendFinish(j)
    \/ \E j \in Jobs : NetworkFault(j)
    \/ \E j \in Jobs : NetworkRestore(j)
    \/ \E j \in Jobs : CallDone(j)
    \/ \E j \in Jobs : CallCancel(j)
    \/ \E j \in Jobs : CallRetry(j)
    \/ \E j \in Jobs : AwaitSingleBegin(j)
    \/ AwaitMultiBegin
    \/ Tick
    \/ AwaitReturn
    \/ \E j \in Jobs : CallResult(j)
    \/ \E j \in Jobs : Drop(j)
    \/ \E j \in Jobs : Finalize(j)

Spec == Init /\ [][Next]_vars

\* ------------------------------------------------- the application's steps
Problems == UNION {[1 .. n -> Entries] : n \in 0 .. MaxLen}

\* The receiver of the next call: p, or what the previous call returned.
receiver == IF ops = <<>> THEN p ELSE res[Len(res)].prob

InitProblem ==
    /\ p \in Problems
    /\ ops = <<>>
    /\ res = <<>>
    /\ AsyncInit
    /\ MemInit
    /\ ThreadInit

CallCanonicalize ==
    /\ Len(ops) < MaxCalls
    /\ ops' = Append(ops, "Canonicalize")
    /\ res' = Append(res, [prob |-> Canonicalize(receiver), ofs |-> 0])
    /\ UNCHANGED <<p, thr, avars, mvars>>

CallToIsing ==
    /\ Len(ops) < MaxCalls
    /\ ops' = Append(ops, "ToIsing")
    /\ res' = Append(res, ToIsing(receiver))
    /\ UNCHANGED <<p, thr, avars, mvars>>

CallToQubo ==
    /\ Len(ops) < MaxCalls
    /\ ops' = Append(ops, "ToQubo")
    /\ res' = Append(res, ToQubo(receiver))
    /\ UNCHANGED <<p, thr, avars, mvars>>

NextProblem ==
    \/ CallCanonicalize
    \/ CallToIsing
    \/ CallToQubo

SpecProblem == InitProblem /\ [][NextProblem]_vars

\* ------------------------------------------------------ claims: the Problem
\* The energy of a QUBO problem q under x in {0,1}^n, and of an Ising problem
\* q under s in {-1,+1}^n.
RECURSIVE energy_qubo(_, _, _)
energy_qubo(q, n, x) ==
    IF n = 0 THEN 0
    ELSE energy_qubo(q, n - 1, x) + q[n].Value * x[q[n].I] * x[q[n].J]

RECURSIVE energy_ising(_, _, _)
energy_ising(q, n, s) ==
    IF n = 0 THEN 0
    ELSE energy_ising(q, n - 1, s)
         + (IF q[n].I = q[n].J THEN q[n].Value * s[q[n].I]
            ELSE q[n].Value * s[q[n].I] * s[q[n].J])

Assignments == [Indices -> {0, 1}]
SpinOf(x) == [i \in Indices |-> 2 * x[i] - 1]

\* The key of an entry as an unordered pair, smaller index first.
KeyOf(pe) == IF pe.I <= pe.J THEN <<pe.I, pe.J>> ELSE <<pe.J, pe.I>>
KeyBefore(a, b) == a[1] < b[1] \/ (a[1] = b[1] /\ a[2] < b[2])

\* q is in canonical form: I <= J everywhere, keys strictly increasing.
IsCanonical(q) ==
    /\ \A k \in 1 .. Len(q) : q[k].I <= q[k].J
    /\ \A k \in 1 .. Len(q) - 1 : KeyBefore(KeyOf(q[k]), KeyOf(q[k + 1]))

\* The sum of the Values of the entries of q whose unordered key is key.
RECURSIVE SumOfKey(_, _, _)
SumOfKey(q, n, key) ==
    IF n = 0 THEN 0
    ELSE SumOfKey(q, n - 1, key) + (IF KeyOf(q[n]) = key THEN q[n].Value ELSE 0)

\* Some coupler of q touches a variable that has a field weight in q.
HasCoupledField(q) ==
    \E k \in 1 .. Len(q), m \in 1 .. Len(q) :
        /\ q[k].I = q[k].J
        /\ q[m].I # q[m].J /\ q[m].Value # 0
        /\ q[k].I \in {q[m].I, q[m].J}
\* q holds one unordered pair three times, in both orientations.
HasTripleDuplicate(q) ==
    /\ Len(q) = 3
    /\ KeyOf(q[1]) = KeyOf(q[2]) /\ KeyOf(q[2]) = KeyOf(q[3])
    /\ q[1].I # q[2].I
    /\ \A k \in 1 .. 3 : q[k].Value # 0

\* C1: energy equivalence of ToIsing.  For every Problem p and every x in
\* {0,1}^n with s = 2x-1, the Ising energy of the problem ToIsing returns,
\* plus the offset it returns, is the QUBO energy of Canonicalize(p) at x.
C1_ToIsingEnergyEquivalence ==
    (Len(ops) >= 1 /\ ops[1] = "ToIsing") =>
        \A x \in Assignments :
            energy_ising(res[1].prob, Len(res[1].prob), SpinOf(x)) + res[1].ofs
                = energy_qubo(Canonicalize(p), Len(Canonicalize(p)), x)

IsingExample ==
    <<ProblemEntry(0, 0, Unit), ProblemEntry(1, 1, Unit),
      ProblemEntry(0, 1, 0 - Unit)>>

C4_CanonicalForm ==
    (Len(ops) >= 1 /\ ops[1] = "Canonicalize") =>
        LET c == res[1].prob
        IN  /\ IsCanonical(c)
            /\ \A k \in 1 .. Len(c), m \in 1 .. Len(c) :
                  (c[k].I = c[m].I /\ c[k].J = c[m].J) => k = m
            /\ {<<c[k].I, c[k].J>> : k \in 1 .. Len(c)}
                  = {KeyOf(p[k]) : k \in 1 .. Len(p)}

C4_Witness ==
    /\ ops = <<"Canonicalize">>
    /\ Len(p) = 3
    /\ p[1].I > p[1].J
    /\ KeyOf(p[3]) = KeyOf(p[1])
    /\ KeyBefore(KeyOf(p[2]), KeyOf(p[1]))
    /\ Len(res[1].prob) = 2

\* C5: merge correctness.  For every unordered pair {i, j} of p, the one
\* entry of Canonicalize(p) with that pair holds the sum of the Values of
\* all entries of p with indices (i, j) or (j, i), however many there are;
\* (3,2,1), (2,3,3), (2,3,6) collapse to (2,3,10).
C5_MergeCorrectness ==
    /\ (Len(ops) >= 1 /\ ops[1] = "Canonicalize") =>
          LET c == res[1].prob
          IN  \A n \in 1 .. Len(p) :
                  /\ Cardinality({k \in 1 .. Len(c) :
                                     <<c[k].I, c[k].J>> = KeyOf(p[n])}) = 1
                  /\ \A k \in 1 .. Len(c) :
                        <<c[k].I, c[k].J>> = KeyOf(p[n]) =>
                            c[k].Value = SumOfKey(p, Len(p), KeyOf(p[n]))
    /\ Canonicalize(<<ProblemEntry(3, 2, 1), ProblemEntry(2, 3, 3),
                      ProblemEntry(2, 3, 6)>>) = <<ProblemEntry(2, 3, 10)>>

C5_Witness ==
    /\ ops = <<"Canonicalize">>
    /\ HasTripleDuplicate(p)
    /\ Len(res[1].prob) = 1
    /\ res[1].prob[1].Value = p[1].Value + p[2].Value + p[3].Value

\* C6: order independence.  Every permutation of p's entries, with any of
\* them turned from (I, J) to (J, I), canonicalizes to the same sequence.
Rearranged(q, perm, turned) ==
    [k \in 1 .. Len(q) |->
        IF k \in turned
        THEN ProblemEntry(q[perm[k]].J, q[perm[k]].I, q[perm[k]].Value)
        ELSE q[perm[k]]]

C7_Idempotence ==
    (ops = <<"Canonicalize", "Canonicalize">>) => res[2].prob = res[1].prob

C7_Witness ==
    /\ ops = <<"Canonicalize", "Canonicalize">>
    /\ HasTripleDuplicate(p)
    /\ res[1].prob # p
    /\ res[2].prob = res[1].prob

\* ------------------------------------------ claims: asynchronous submission
\* C8: AwaitCompletion soundness.  SubmittedProblem.AwaitCompletion returns
\* true only if the job is Done as it returns (never for a job that is
\* Submitting, Submitted, Retrying or Failed), and a return by timeout
\* expiry is false.
C8_AwaitCompletionSoundness ==
    (ret.op = "AwaitSingle") =>
        /\ ret.value => ret.stateAt = "Done"
        /\ ret.cause = "timeout" => ~ret.value

C8_Witness ==
    /\ ret.op = "AwaitSingle"
    /\ ret.value
    /\ ret.stateAt = "Done"
    /\ \E j \in Jobs : j # ret.job /\ jobs[j].state \in {"Submitted", "Failed"}

\* C9: multi-job threshold.  With 1 <= minDone <= len(jobs),
\* AwaitCompletion(jobs, minDone, timeout) returns true exactly when at
\* least minDone of the jobs are Done as it returns; with minDone =
\* len(jobs), true means that all of them are Done.
C9_MultiJobThreshold ==
    (ret.op = "AwaitMulti" /\ ~ret.panic
        /\ 1 <= ret.minDone /\ ret.minDone <= ret.n) =>
        /\ ret.value <=> (ret.ndone >= ret.minDone)
        /\ (ret.value /\ ret.minDone = ret.n) => ret.ndone = ret.n

C9_Witness ==
    /\ ret.op = "AwaitMulti"
    /\ ret.n = 2
    /\ ret.minDone = 2
    /\ ret.value
    /\ ret.ndone = 2

\* C10: Result before Done.  Result on a job that is not Done returns an
\* Error whose code is AsyncNotDone and the zero IsingResult, and changes
\* neither the job's state nor its backend resource.
C10_ResultBeforeDone ==
    [][\A j \in Jobs :
          (CallResult(j) /\ jobs[j].state # "Done") =>
              /\ ret'.err.N = "AsyncNotDone"
              /\ ret'.result = ZeroIsingResult
              /\ jobs'[j] = jobs[j]]_vars

C10_Witness ==
    /\ ret.op = "Result"
    /\ ret.stateAt \in {"Submitting", "Submitted", "Retrying", "Failed"}
    /\ ret.err.N = "AsyncNotDone"
    /\ ret.result = ZeroIsingResult
    /\ jobs[ret.job].resource = "live"

\* C11: single-consumption result.  After a successful Result on a job, a
\* later Result on the same job fails with an error and returns no result
\* data a second time (stated for the Result call that directly follows the
\* successful one).
C11_SingleConsumptionResult ==
    (ret.op = "Result" /\ ret.second) =>
        /\ ret.err # NoError
        /\ ret.result = ZeroIsingResult

\* ------------------------------------- finalizers and backend calls in flight
\* The methods of SubmittedProblem that enter the backend, and the package
\* function AwaitCompletion ("AwaitMulti").
CgoOps == {"Status", "Done", "Cancel", "Retry", "Result", "AwaitSingle", "AwaitMulti"}

\* Whether the argument handed to the C function points into the
\* SubmittedProblem itself, so that the call keeps it reachable: only
\* SubmittedProblem.AwaitCompletion passes &sp.cSp; every other wrapper
\* passes a copy of the C pointer sp.cSp (AwaitCompletion: a slice of copies)
\* and no runtime.KeepAlive follows the call.
pinsReceiver(op) == op = "AwaitSingle"

\* The jobs of sps.
jobsOf(sps) == {sps[k] : k \in 1 .. Len(sps)}

\* A wrapper reads the C pointers of sps and enters the C function.  last
\* tells that the call is the application's last use of the
\* SubmittedProblems: then nothing refers to them once their cSp has been
\* read, unless the argument itself does.
CgoEnter(op, sps, last) ==
    /\ call = Idle
    /\ Len(sps) >= 1
    /\ op # "AwaitMulti" => Len(sps) = 1
    /\ \A j \in jobsOf(sps) : Callable(j)
    /\ call' = [op |-> op, sps |-> sps, minDone |-> 1,
                c |-> [handles |-> sps, n |-> Len(sps), minDone |-> 1],
                left |-> 0]
    /\ jobs' = [j \in Jobs |->
                   IF last /\ ~pinsReceiver(op) /\ j \in jobsOf(sps)
                   THEN [jobs[j] EXCEPT !.held = FALSE]
                   ELSE jobs[j]]
    /\ ret' = NoReturn
    /\ UNCHANGED <<pvars, mvars>>

\* Some handle the C function was given has been freed by a finalizer.
freedInFlight ==
    \E k \in 1 .. call.c.n : jobs[call.c.handles[k]].resource = "freed"

\* The C function returns.  When it has worked on a freed handle its
\* behaviour is undefined: it may crash the process or return anything.
CgoLeave ==
    /\ call.op \in CgoOps
    /\ \E crash \in BOOLEAN, v \in BOOLEAN :
          /\ crash => freedInFlight
          /\ v => freedInFlight
          /\ ret' = [NoReturn EXCEPT !.op = call.op, !.job = call.sps[1],
                                     !.n = Len(call.sps), !.value = v,
                                     !.panic = crash]
    /\ call' = Idle
    /\ UNCHANGED <<jobs, pvars, mvars>>

\* The garbage collector runs the finalizer of an unreachable
\* SubmittedProblem at any time, also while a C function is running.
NextGC ==
    \/ \E j \in Jobs : AsyncSolve(j)
    \/ \E op \in CgoOps, last \in BOOLEAN :
       \E n \in 1 .. NJobs : \E sps \in [1 .. n -> Jobs] : CgoEnter(op, sps, last)
    \/ CgoLeave
    \/ \E j \in Jobs : Drop(j)
    \/ \E j \in Jobs : Finalize(j)

SpecGC == Init /\ [][NextGC]_vars

\* C12: no access after release under finalization.  While a backend call
\* made through a SubmittedProblem (Status, Done, Cancel, Retry, Result,
\* either AwaitCompletion) is executing, the backend job of every handle it
\* was given has not been released, whatever the garbage collector does and
\* also when the call is the last use of the SubmittedProblem.
C12_NoReleaseDuringCall ==
    (call.op \in CgoOps) =>
        \A k \in 1 .. call.c.n : jobs[call.c.handles[k]].resource = "live"

\* ------------------------------------------------------- C-side resources
\* What the wrappers allocate with C.malloc / C.CString or are handed by the
\* backend through an out-parameter or a return value.
Handles == {"SubmittedProblem", "Solver", "RemoteConnection", "LocalConnection"}

\* Kinds whose release is left to a finalizer set on the Go object that
\* holds the C pointer: the elements of a marshalled Problem (toC), and the
\* handles behind SubmittedProblem, Solver and a remote Connection.
hasFinalizer(kind) ==
    kind \in {"elements", "SubmittedProblem", "Solver", "RemoteConnection"}

\* Kinds the call that allocated or received them releases before it
\* returns: C strings (defer C.free), the sapi_IsingResult
\* (convertIsingResultToGo), and the results of sapi_findEmbedding,
\* sapi_embedProblem, sapi_fixVariables and of the adjacency queries.
freedInCallWithElements(kind) ==
    kind \in {"cstring", "IsingResult", "Embeddings", "EmbedProblemResult",
              "FixVariablesResult", "AdjacencyProblem", "elements"}
freedInCall(kind) ==
    kind \in {"cstring", "IsingResult", "Embeddings", "EmbedProblemResult",
              "FixVariablesResult", "AdjacencyProblem"}

\* The connection to the local solvers belongs to the backend; everything
\* else was allocated by the wrapper or handed over to it.
ownerOf(kind) == IF kind = "LocalConnection" THEN "backend" ELSE "wrapper"

\* The outputs the backend allocates and hands to a wrapper, which turns
\* them into Go values.
OutputKinds ==
    {"IsingResult", "Embeddings", "EmbedProblemResult", "FixVariablesResult",
     "AdjacencyProblem"}

\* One thing a wrapper does with a field of a backend-owned output: "copy"
\* reads it into memory Go allocated (make, or a struct copied by value),
\* "alias" would keep a Go value that points into it.
Step(act, field) == [act |-> act, field |-> field]

\* The fields of each output, in the order the wrapper reads them.
fieldsOf(kind) ==
    CASE kind = "IsingResult" ->
            <<"solutions", "energies", "num_occurrences", "timing">>
      [] kind = "Embeddings" -> <<"elements">>
      [] kind = "EmbedProblemResult" -> <<"problem", "jc", "embeddings">>
      [] kind = "FixVariablesResult" ->
            <<"fixed_variables", "offset", "new_problem">>
      [] kind = "AdjacencyProblem" -> <<"elements">>
      [] OTHER -> <<>>

\* What a wrapper does with an output from receiving it to its return:
\* convertIsingResultToGo, FindEmbedding, EmbedProblem and FixVariables copy
\* field after field and then call the backend's free function; the
\* adjacency queries defer the free, which runs once problemFromC has built
\* the value to return.
unmarshalFreeFirst(kind) ==
    IF kind \in OutputKinds
    THEN <<Step("free", kind)>>
            \o [k \in 1 .. Len(fieldsOf(kind)) |-> Step("copy", fieldsOf(kind)[k])]
            \o <<Step("return", kind)>>
    ELSE <<>>
unmarshal(kind) ==
    IF kind \in OutputKinds
    THEN [k \in 1 .. Len(fieldsOf(kind)) |-> Step("copy", fieldsOf(kind)[k])]
            \o <<Step("free", kind), Step("return", kind)>>
    ELSE <<>>

\* A resource of the given kind as the call op leaves it on return: reach
\* tells that the application still holds the Go object around it (only a
\* handle is returned to it), ran that its finalizer has run, frees how
\* often it has been released, steps what the call did with it.  For a
\* handle, from is the handle it was obtained from (0: none), and done
\* tells of a submitted problem that the backend has finished it.
alloc(kind, op) ==
    [kind |-> kind, op |-> op, owner |-> ownerOf(kind),
     fin |-> hasFinalizer(kind), reach |-> kind \in Handles, ran |-> FALSE,
     frees |-> IF freedInCall(kind) THEN 1 ELSE 0,
     steps |-> unmarshal(kind), from |-> 0, done |-> FALSE]

\* The kinds each public operation allocates or receives, in order, when
\* the backend call succeeds (ok) and when it fails.
allocs(op, ok) ==
    CASE op = "FindEmbedding" ->
            <<"elements", "elements">> \o (IF ok THEN <<"Embeddings">> ELSE <<>>)
      [] op = "EmbedProblem" ->
            <<"elements", "elements", "ints">>
                \o (IF ok THEN <<"EmbedProblemResult">> ELSE <<>>)
      [] op = "UnembedAnswer" -> <<"matrix", "ints", "elements", "cNew">>
      [] op = "FixVariables" ->
            <<"elements">> \o (IF ok THEN <<"FixVariablesResult">> ELSE <<>>)
      [] op \in {"ChimeraAdjacency", "HardwareAdjacency"} ->
            IF ok THEN <<"AdjacencyProblem">> ELSE <<>>
      [] op = "LocalConnection" -> <<"LocalConnection">>
      [] op = "RemoteConnection" ->
            <<"cstring", "cstring", "cstring">>
                \o (IF ok THEN <<"RemoteConnection">> ELSE <<>>)
      [] op = "Solver" -> <<"cstring">> \o (IF ok THEN <<"Solver">> ELSE <<>>)
      [] op \in {"SolveIsing", "SolveQubo"} ->
            <<"elements">> \o (IF ok THEN <<"IsingResult">> ELSE <<>>)
      [] op \in {"AsyncSolveIsing", "AsyncSolveQubo"} ->
            <<"elements">> \o (IF ok THEN <<"SubmittedProblem">> ELSE <<>>)
      [] op = "Result" -> IF ok THEN <<"IsingResult">> ELSE <<>>
      [] OTHER -> <<>>

\* The resources op leaves behind.
allocated(op, ok) ==
    [k \in 1 .. Len(allocs(op, ok)) |-> alloc(allocs(op, ok)[k], op)]

\* The kind of handle a method is called on.
receiverOf(op) ==
    CASE op = "Solver" -> {"RemoteConnection", "LocalConnection"}
      [] op \in {"SolveIsing", "SolveQubo", "AsyncSolveIsing", "AsyncSolveQubo",
                 "HardwareAdjacency"} -> {"Solver"}
      [] op \in {"Result", "Status"} -> {"SubmittedProblem"}
      [] OTHER -> {}

\* The application holds a handle that op can be called on.
hasReceiver(op) ==
    receiverOf(op) # {} =>
        \E i \in 1 .. Len(mem) :
            mem[i].kind \in receiverOf(op) /\ mem[i].reach /\ mem[i].frees = 0

PublicOps ==
    {"FindEmbedding", "EmbedProblem", "UnembedAnswer", "FixVariables",
     "ChimeraAdjacency", "HardwareAdjacency", "LocalConnection",
     "RemoteConnection", "Solver", "SolveIsing", "SolveQubo",
     "AsyncSolveIsing", "AsyncSolveQubo", "Result", "Status"}

\* What the backend may report when it refuses or fails.
BackendFailures ==
    {[code |-> "InvalidParameter", msg |-> "invalid parameter"],
     [code |-> "SolveFailed", msg |-> "solve failed"]}

\* The IsingResult a successful solve is converted to.
SomeCResult == [solutions |-> <<<<1>>>>, energies |-> <<0>>, num_occurrences |-> <<1>>]

\* What op returns for the backend's answer b: the error, and for the
\* operations that return an IsingResult, the result.
callReturn(op, b) ==
    [NoReturn EXCEPT
        !.op = op,
        !.backend = b,
        !.err = IF b.code # "OK" THEN newErrorf(b.code, b.msg) ELSE NoError,
        !.result = IF b.code = "OK" /\ op \in {"SolveIsing", "SolveQubo", "Result"}
                   THEN convertIsingResultToGo(SomeCResult)
                   ELSE ZeroIsingResult]

\* The handles op can be called on; 0 when op is no method of a handle.
Receivers(op) ==
    IF receiverOf(op) = {} THEN {0}
    ELSE {i \in 1 .. Len(mem) :
             mem[i].kind \in receiverOf(op) /\ mem[i].reach /\ mem[i].frees = 0}

\* A new handle remembers the handle r it was obtained from.
withReceiver(a, r) == IF a.kind \in Handles THEN [a EXCEPT !.from = r] ELSE a

\* A Result that succeeds shows that the backend has finished the job.
shown(op, r, ok) ==
    IF op = "Result" /\ ok THEN [mem EXCEPT ![r].done = TRUE] ELSE mem

\* One public operation, from its call to its return.
CallOp(op) ==
    /\ ncalls < MaxOps
    /\ hasReceiver(op)
    /\ \E r \in Receivers(op) :
       \E b \in BackendFailures \cup {[code |-> "OK", msg |-> ""]} :
          /\ op = "LocalConnection" => b.code = "OK"
          /\ mem' = shown(op, r, b.code = "OK")
                       \o [k \in 1 .. Len(allocated(op, b.code = "OK")) |->
                              withReceiver(allocated(op, b.code = "OK")[k], r)]
          /\ ret' = callReturn(op, b)
    /\ ncalls' = ncalls + 1
    /\ UNCHANGED <<jobs, call, pvars>>

\* The application lets go of a handle.
DropHandle(i) ==
    /\ mem[i].kind \in Handles
    /\ mem[i].reach
    /\ mem' = [mem EXCEPT ![i].reach = FALSE]
    /\ UNCHANGED <<ncalls, avars, pvars>>

\* The Go object around resource i can still be reached: the application
\* holds it, or a Solver obtained from it (Solver.Conn) has not been
\* collected; a Solver is collected after its finalizer has run.  A
\* SubmittedProblem holds nothing but its C pointer.
holdsReceiver(kind) == kind = "Solver"
reachable(i) ==
    \/ mem[i].reach
    \/ \E k \in 1 .. Len(mem) :
          holdsReceiver(mem[k].kind) /\ mem[k].from = i /\ ~mem[k].ran

\* The finalizer of an unreachable Go object runs, once, and releases the
\* resource.  The finalizers of marshalled Problems touch nothing but their
\* own buffer, so they are taken in the order of allocation.
RunFinalizer(i) ==
    /\ mem[i].fin
    /\ ~reachable(i)
    /\ ~mem[i].ran
    /\ mem[i].kind = "elements" =>
          \A k \in 1 .. i - 1 : mem[k].kind = "elements" => mem[k].ran
    /\ mem' = [mem EXCEPT ![i].ran = TRUE, ![i].frees = @ + 1]
    /\ UNCHANGED <<ncalls, avars, pvars>>

NextMem ==
    \/ \E op \in PublicOps : CallOp(op)
    \/ \E i \in 1 .. Len(mem) : DropHandle(i)
    \/ \E i \in 1 .. Len(mem) : RunFinalizer(i)

SpecMem == Init /\ [][NextMem]_vars

\* C13: no double release.  After any sequence of operations and finalizer
\* runs, every C-side resource (marshalled Problem elements, submitted
\* problem, solver and remote connection handles, Ising result, embeddings
\* result, adjacency problem, ...) has been released at most once, and only
\* resources the wrapper allocated or was handed have been released.
C13_NoDoubleRelease ==
    \A i \in 1 .. Len(mem) :
        /\ mem[i].frees <= 1
        /\ mem[i].frees > 0 => mem[i].owner = "wrapper"

C13_Witness ==
    /\ \E i \in 1 .. Len(mem) :
          mem[i].kind = "SubmittedProblem" /\ mem[i].ran /\ mem[i].frees = 1
    /\ \E i \in 1 .. Len(mem) :
          mem[i].kind = "elements" /\ mem[i].ran /\ mem[i].frees = 1
    /\ \E i \in 1 .. Len(mem) :
          mem[i].kind = "IsingResult" /\ mem[i].op = "Result" /\ mem[i].frees = 1
    /\ \E i \in 1 .. Len(mem) :
          mem[i].kind = "LocalConnection" /\ ~mem[i].reach /\ mem[i].frees = 0

\* C14: exactly-once release on every path.  Once FindEmbedding,
\* EmbedProblem or UnembedAnswer has returned, with or without an error,
\* every buffer the call allocated has been released exactly once, or is
\* still to be released, once, by the finalizer of the Go object that owns
\* it.
C14_ExactlyOnceRelease ==
    \A i \in 1 .. Len(mem) :
        mem[i].op \in {"FindEmbedding", "EmbedProblem", "UnembedAnswer"} =>
            \/ mem[i].frees = 1
            \/ mem[i].frees = 0 /\ mem[i].fin /\ ~mem[i].ran

\* ----------------------------------------------- the caller's polling loop
\* sub, err := solver.AsyncSolveIsing(prob, sp)
\* for !sub.AwaitCompletion(timeout) { }
\* return sub.Result()
\* run on one job, which is never cancelled and never retried.
LoopSubmit(j) ==
    /\ \A k \in Jobs : jobs[k].state = "Unsubmitted"
    /\ ret = NoReturn
    /\ AsyncSolve(j)

\* The loop calls AwaitCompletion after the submission and again after
\* every false.
LoopAwait(j) ==
    /\ ret.job = j
    /\ \/ ret.op = "AsyncSolve" /\ ret.err = NoError
       \/ ret.op = "AwaitSingle" /\ ~ret.value
    /\ AwaitSingleBegin(j)

\* After the first true the loop is left and Result is called.
LoopResult(j) ==
    /\ ret.job = j
    /\ ret.op = "AwaitSingle"
    /\ ret.value
    /\ CallResult(j)

NextLoop ==
    \/ \E j \in Jobs : LoopSubmit(j)
    \/ \E j \in Jobs : LoopAwait(j)
    \/ \E j \in Jobs : LoopResult(j)
    \/ Tick
    \/ AwaitReturn
    \/ \E j \in Jobs : BackendAccept(j)
    \/ \E j \in Jobs : BackendProgress(j)
    \/ \E j \in Jobs : BackendFinish(j)
    \/ \E j \in Jobs : NetworkFault(j)
    \/ \E j \in Jobs : NetworkRestore(j)

\* The caller's code keeps running, a blocked sapi_awaitCompletion sees its
\* timeout pass and returns, and the backend is fair: it takes a problem
\* that waits to be accepted, restores a lost connection, and serves a
\* problem that is in its queue again and again.
FairLoop ==
    /\ WF_vars(Tick)
    /\ WF_vars(AwaitReturn)
    /\ \A j \in Jobs :
          /\ WF_vars(LoopAwait(j))
          /\ WF_vars(LoopResult(j))
          /\ WF_vars(BackendAccept(j))
          /\ WF_vars(NetworkRestore(j))
          /\ SF_vars(BackendFinish(j))

SpecLoop == Init /\ [][NextLoop]_vars /\ FairLoop

\* AsyncSolveIsing / AsyncSolveQubo has returned SubmittedProblem j.
Submitted(j) == ret.op = "AsyncSolve" /\ ret.job = j /\ ret.err = NoError

\* C15: async progress.  Under fair backend scheduling every job returned
\* by a successful AsyncSolveIsing / AsyncSolveQubo that is never cancelled
\* eventually is Done, the loop that repeats AwaitCompletion until true
\* terminates, and Result then succeeds.
C15_AsyncProgress ==
    \A j \in Jobs :
        Submitted(j) ~>
            (ret.op = "Result" /\ ret.job = j /\ ret.stateAt = "Done"
                /\ ret.err = NoError)

\* C15 as it holds: the job eventually is Done or has been left Failed by a
\* network fault (which only Retry resumes); when it is Done the loop
\* terminates and Result is called on the Done job, returning the result if
\* the backend completed the problem and the backend's error if not.
C15_AsyncProgressOrFailed ==
    \A j \in Jobs :
        Submitted(j) ~>
            \/ jobs[j].state = "Failed"
            \/ /\ ret.op = "Result" /\ ret.job = j /\ ret.stateAt = "Done"
               /\ (jobs[j].remote = "Completed") <=> (ret.err = NoError)

C15_Witness ==
    /\ ret.op = "Result"
    /\ ret.stateAt = "Done"
    /\ ret.err = NoError
    /\ ret.result # ZeroIsingResult
    /\ jobs[ret.job].remote = "Completed"

\* ------------------------------------------- one SubmittedProblem, polled
\* Every operation on a single SubmittedProblem, Status included, with the
\* backend's events.
OneJob == {CHOOSE j \in Jobs : TRUE}

NextOne ==
    \/ \E j \in OneJob : AsyncSolve(j)
    \/ \E j \in OneJob : BackendAccept(j)
    \/ \E j \in OneJob : BackendProgress(j)
    \/ \E j \in OneJob : BackendFinish(j)
    \/ \E j \in OneJob : NetworkFault(j)
    \/ \E j \in OneJob : NetworkRestore(j)
    \/ \E j \in OneJob : CallStatus(j)
    \/ \E j \in OneJob : CallDone(j)
    \/ \E j \in OneJob : CallCancel(j)
    \/ \E j \in OneJob : CallRetry(j)
    \/ \E j \in OneJob : AwaitSingleBegin(j)
    \/ AwaitMultiBegin
    \/ Tick
    \/ AwaitReturn
    \/ \E j \in OneJob : CallResult(j)
    \/ \E j \in OneJob : Drop(j)
    \/ \E j \in OneJob : Finalize(j)

SpecOne == Init /\ [][NextOne]_vars

\* The moves of a job's client state that the state machine lists.
ListedMoves ==
    {<<"Unsubmitted", "Submitting">>, <<"Submitting", "Submitted">>,
     <<"Submitted", "Done">>,
     <<"Submitting", "Retrying">>, <<"Submitting", "Failed">>,
     <<"Submitted", "Retrying">>, <<"Submitted", "Failed">>,
     <<"Retrying", "Submitted">>}

\* C16: Done is terminal and transitions are restricted.  A job's client
\* state only moves Submitting -> Submitted -> Done, enters Retrying or
\* Failed only from Submitting or Submitted, leaves Retrying only to
\* Submitted, and no call (Status, Done, Cancel, Retry, AwaitCompletion,
\* Result) and no backend event moves it away from Done.
C16_RestrictedTransitions ==
    [][\A j \in Jobs :
          /\ jobs'[j].state # jobs[j].state =>
                <<jobs[j].state, jobs'[j].state>> \in ListedMoves
          /\ jobs[j].state = "Done" => jobs'[j].state = "Done"]_vars

\* C16 as it holds: besides the listed moves, a Retry call takes a Failed
\* job to Retrying; nothing else leaves Failed, and Done is terminal.
C16_RestrictedTransitionsWithRetry ==
    [][\A j \in Jobs :
          /\ jobs'[j].state # jobs[j].state =>
                \/ <<jobs[j].state, jobs'[j].state>> \in ListedMoves
                \/ /\ jobs[j].state = "Failed" /\ jobs'[j].state = "Retrying"
                   /\ ret'.op = "Retry" /\ ret'.job = j
          /\ jobs[j].state = "Done" => jobs'[j].state = "Done"]_vars

C16_Witness ==
    /\ ret.op \in {"Retry", "Cancel"}
    /\ ret.stateAt = "Done"
    /\ jobs[ret.job].state = "Done"
    /\ jobs[ret.job].remote = "Completed"

\* C17: Done/Status agreement.  For a job in any reachable state, Done()
\* returns true if and only if Status() returns, without error, a snapshot
\* whose State is StateDone.  Stated for a Status call that follows a Done
\* call on the same job with the job's state unchanged in between, and
\* whose status poll succeeds.
C17_DoneStatusAgreement ==
    [][\A j \in Jobs :
          (/\ ret.op = "Done" /\ ret.job = j /\ ret.stateAt = jobs[j].state
           /\ CallStatus(j)
           /\ ret'.backend.code = "OK") =>
              (ret.value <=> (ret'.err = NoError /\ ret'.status.State = "Done"))]_vars

\* C18: Status is a total read.  For a job in any client state (Submitting
\* and Submitted, where the timestamps are not yet set, included), whenever
\* the backend's status poll succeeds, Status() returns no error and a
\* non-nil snapshot whose State, LastGoodState and RemoteStatus are the
\* values the backend reported.  (That no call changes the job's state by
\* itself is part of C16.)
C18_StatusTotalRead ==
    (ret.op = "Status" /\ ret.backend.code = "OK") =>
        /\ ret.err = NoError
        /\ ret.status # NilStatus
        /\ ret.status.State = ret.backend.cPs.state
        /\ ret.status.LastGoodState = ret.backend.cPs.last_good_state
        /\ ret.status.RemoteStatus = ret.backend.cPs.remote_status

\* C19: synchronous solve failure.  Whenever the backend's blocking solve
\* reports a non-success status, SolveIsing / SolveQubo return the zero
\* IsingResult and an Error whose N is the backend's code and whose S is
\* the backend's message text, and the call releases no result buffer.
C19_SolveFailure ==
    [][\A op \in {"SolveIsing", "SolveQubo"} :
          (CallOp(op) /\ ret'.backend.code # "OK") =>
              /\ ret'.result = ZeroIsingResult
              /\ ret'.err.N = ret'.backend.code
              /\ ret'.err.S = <<ret'.backend.msg>>
              /\ \A i \in 1 .. Len(mem') :
                    /\ i > Len(mem) => mem'[i].kind # "IsingResult"
                    /\ i <= Len(mem) => mem'[i] = mem[i]]_vars

\* The codes of the error taxonomy (Code).
Codes ==
    {"OK", "InvalidParameter", "SolveFailed", "AuthenticationError",
     "NetworkError", "CommunicationError", "AsyncNotDone", "ProblemCanceled",
     "NotInitialized", "OutOfMemory"}

\* e is a sapi Error: a Code and a message.
IsSapiError(e) == DOMAIN e = {"N", "S"} /\ e.N \in Codes

\* C20: structured errors.  Every non-nil error a public operation returns
\* is a sapi Error value that carries a Code of the taxonomy and a message.
C20_StructuredErrors ==
    (ret.err # NoError) => IsSapiError(ret.err)

\* C21: no per-call panic.  After package initialization no public
\* operation panics, whatever its arguments: AwaitCompletion with an empty
\* job list or with minDone outside 1..len(jobs) returns false instead.
C21_NoPanic == ~ret.panic

\* C22: energy equivalence of ToQubo.  For every Problem p (an Ising model)
\* and every s in {-1,+1}^n with x = (s+1)/2, the QUBO energy of the problem
\* ToQubo returns, plus the offset it returns, is the Ising energy of
\* Canonicalize(p) at s, also when a coupled variable has no linear entry.
C22_ToQuboEnergyEquivalence ==
    (Len(ops) >= 1 /\ ops[1] = "ToQubo") =>
        \A x \in Assignments :
            energy_qubo(res[1].prob, Len(res[1].prob), x) + res[1].ofs
                = energy_ising(Canonicalize(p), Len(Canonicalize(p)), SpinOf(x))

\* The sum of the Values of the entries of q at the positions idx.
RECURSIVE SumOver(_, _)
SumOver(q, idx) ==
    IF idx = {} THEN 0
    ELSE LET k == CHOOSE k \in idx : TRUE
         IN  q[k].Value + SumOver(q, idx \ {k})

\* The positions of the linear entries of q, of its couplers, and of its
\* couplers that touch variable i.
LinearAt(q) == {k \in 1 .. Len(q) : q[k].I = q[k].J}
CouplersAt(q) == {k \in 1 .. Len(q) : q[k].I # q[k].J}
TouchingAt(q, i) == {k \in CouplersAt(q) : i \in {q[k].I, q[k].J}}

\* C23: ToIsing coefficients and offset.  With c = Canonicalize(p), ToIsing
\* returns one entry per entry of c with the same (I, J): a linear entry
\* (i,i) gets c_ii/2 + (sum of the couplers of c touching i)/4, a coupling
\* entry gets c_ij/4, and the offset is (sum of c's linear values)/2 +
\* (sum of c's coupling values)/4.
C23_ToIsingCoefficients ==
    (Len(ops) >= 1 /\ ops[1] = "ToIsing") =>
        LET c == Canonicalize(p)
            r == res[1].prob
        IN  /\ Len(r) = Len(c)
            /\ \A k \in 1 .. Len(c) :
                  /\ r[k].I = c[k].I
                  /\ r[k].J = c[k].J
                  /\ r[k].Value =
                        IF c[k].I = c[k].J
                        THEN Half(c[k].Value)
                                + Quarter(SumOver(c, TouchingAt(c, c[k].I)))
                        ELSE Quarter(c[k].Value)
            /\ res[1].ofs = Half(SumOver(c, LinearAt(c)))
                               + Quarter(SumOver(c, CouplersAt(c)))

C23_Witness ==
    /\ Len(ops) >= 1 /\ ops[1] = "ToIsing"
    /\ Len(p) = 3
    /\ Len(res[1].prob) = 3
    /\ \E k \in 1 .. 3 :
          /\ res[1].prob[k].I = res[1].prob[k].J
          /\ res[1].prob[k].Value # Half(Canonicalize(p)[k].Value)
    /\ \E k \in 1 .. 3 : res[1].prob[k].I # res[1].prob[k].J
    /\ res[1].ofs # 0

\* C24: ToQubo coefficients and offset.  With c = Canonicalize(p), ToQubo
\* returns one entry per entry of c with the same (I, J): a linear entry
\* (i,i) gets 2*c_ii - 2*(sum of the couplers of c touching i), a coupling
\* entry gets 4*c_ij, and the offset is the negative of the offset ToIsing
\* returns for the converted problem.
C24_ToQuboCoefficients ==
    (Len(ops) >= 1 /\ ops[1] = "ToQubo") =>
        LET c == Canonicalize(p)
            r == res[1].prob
        IN  /\ Len(r) = Len(c)
            /\ \A k \in 1 .. Len(c) :
                  /\ r[k].I = c[k].I
                  /\ r[k].J = c[k].J
                  /\ r[k].Value =
                        IF c[k].I = c[k].J
                        THEN 2 * c[k].Value
                                - 2 * SumOver(c, TouchingAt(c, c[k].I))
                        ELSE 4 * c[k].Value
            /\ res[1].ofs = 0 - ToIsing(r).ofs

C24_Witness ==
    /\ Len(ops) >= 1 /\ ops[1] = "ToQubo"
    /\ Len(p) = 3
    /\ Len(res[1].prob) = 3
    /\ \E k \in 1 .. 3 :
          /\ res[1].prob[k].I = res[1].prob[k].J
          /\ res[1].prob[k].Value # 2 * Canonicalize(p)[k].Value
    /\ \E k \in 1 .. 3 : res[1].prob[k].I # res[1].prob[k].J
    /\ res[1].ofs # 0
    /\ res[1].ofs = 0 - ToIsing(res[1].prob).ofs

\* Canonicalize's merge loop indexes p1[i-1] and p2[len(p2)-1]: the call
\* panics if it reaches one of them with the index out of range, that is
\* p1[i-1] for the first entry, or p2[len(p2)-1] while p2 is still empty.
\* Without the test `i > 0` the first entry would be compared with p1[-1].
canonicalizePanicsUnguarded(q) == Len(q) >= 1
canonicalizePanics(q) ==
    LET p1 == sortSlice([k \in 1 .. Len(q) |-> Orient(q[k])])
    IN  \E n \in 1 .. Len(p1) :
            /\ n > 1
            /\ n - 1 \notin DOMAIN p1
                  \/ /\ p1[n].I = p1[n - 1].I /\ p1[n].J = p1[n - 1].J
                     /\ mergeDuplicates(p1, n - 1) = <<>>

\* C25: totality of the duality transforms.  ToIsing and ToQubo return a
\* result for every Problem without a panic (problems with only linear
\* entries, only couplers, or duplicates included): one entry for each
\* distinct pair of p and an offset; for the empty Problem both return the
\* empty Problem and offset 0.
C25_Totality ==
    (Len(ops) >= 1 /\ ops[1] \in {"ToIsing", "ToQubo"}) =>
        /\ ~canonicalizePanics(p)
        /\ res[1].prob \in Seq({ProblemEntry(i, j, res[1].prob[k].Value) :
                                   i \in Indices, j \in Indices,
                                   k \in 1 .. Len(res[1].prob)})
        /\ Len(res[1].prob) = Cardinality({KeyOf(p[k]) : k \in 1 .. Len(p)})
        /\ res[1].ofs \in Int
        /\ p = <<>> => (res[1].prob = <<>> /\ res[1].ofs = 0)

C25_Witness ==
    /\ ops = <<"ToQubo", "ToIsing">>
    /\ Len(p) = 3
    /\ \A k \in 1 .. 3 : p[k].I # p[k].J
    /\ KeyOf(p[1]) = KeyOf(p[2]) /\ p[1].I # p[2].I
    /\ Len(res[1].prob) = 2
    /\ res[1].ofs # 0

\* ------------------------------------- goroutines that share one Problem
\* The Problem the goroutines share: one entry shorter than the longest
\* Problem of the sequential runs.
SharedProblems == UNION {[1 .. n -> Entries] : n \in 0 .. MaxLen - 1}

\* Canonicalize, first loop, as it leaves the receiver q and the copy p1:
\* `pe` is a copy of q[i], so turning it writes p1[i] only.
orientLoopInPlace(q) ==
    [p |-> [k \in 1 .. Len(q) |-> Orient(q[k])],
     p1 |-> [k \in 1 .. Len(q) |-> Orient(q[k])]]
orientLoop(q) == [p |-> q, p1 |-> [k \in 1 .. Len(q) |-> Orient(q[k])]]

\* Goroutine t calls p.Canonicalize(), p.ToIsing() or p.ToQubo().
ThreadCall(t, op) ==
    /\ thr[t].pc = "idle"
    /\ thr' = [thr EXCEPT ![t] = [IdleThread EXCEPT !.op = op, !.pc = "called"]]
    /\ UNCHANGED <<p, ops, res, avars, mvars>>

\* Canonicalize, first loop: the only step of a call that touches p.
ThreadOrient(t) ==
    /\ thr[t].pc = "called"
    /\ p' = orientLoop(p).p
    /\ thr' = [thr EXCEPT ![t].p1 = orientLoop(p).p1, ![t].pc = "oriented"]
    /\ UNCHANGED <<ops, res, avars, mvars>>

\* Canonicalize, sort and merge, on the goroutine's own p1 and p2; then
\* Canonicalize returns p2.
ThreadMerge(t) ==
    /\ thr[t].pc = "oriented"
    /\ LET p1 == sortSlice(thr[t].p1)
           p2 == mergeDuplicates(p1, Len(p1))
       IN  thr' = [thr EXCEPT
                      ![t].cp = p2,
                      ![t].out = IF thr[t].op = "Canonicalize" THEN p2 ELSE <<>>,
                      ![t].pc = IF thr[t].op = "Canonicalize" THEN "done" ELSE "merged"]
    /\ UNCHANGED <<p, ops, res, avars, mvars>>

\* ToIsing / ToQubo, after cp := p.Canonicalize(): the entry loop over cp
\* and the offset.
ThreadConvert(t) ==
    /\ thr[t].pc = "merged"
    /\ LET cp == thr[t].cp
           cMap == couplerMap(cp)
           ip == [k \in 1 .. Len(cp) |-> toIsingEntry(cMap, cp[k])]
           qp == [k \in 1 .. Len(cp) |-> toQuboEntry(cMap, cp[k])]
       IN  thr' = [thr EXCEPT
                      ![t].out = IF thr[t].op = "ToIsing" THEN ip ELSE qp,
                      ![t].ofs = IF thr[t].op = "ToIsing" THEN energyOffset(cp)
                                 ELSE 0 - energyOffset(qp),
                      ![t].pc = "done"]
    /\ UNCHANGED <<p, ops, res, avars, mvars>>

InitShared ==
    /\ p \in SharedProblems
    /\ ops = <<>>
    /\ res = <<>>
    /\ AsyncInit
    /\ MemInit
    /\ ThreadInit

NextShared ==
    \/ \E t \in Threads, op \in {"Canonicalize", "ToIsing", "ToQubo"} : ThreadCall(t, op)
    \/ \E t \in Threads : ThreadOrient(t)
    \/ \E t \in Threads : ThreadMerge(t)
    \/ \E t \in Threads : ThreadConvert(t)

SpecShared == InitShared /\ [][NextShared]_vars

\* What a call of op on q returns when nothing else runs.
Sequential(op, q) ==
    CASE op = "Canonicalize" -> [prob |-> Canonicalize(q), ofs |-> 0]
      [] op = "ToIsing" -> ToIsing(q)
      [] op = "ToQubo" -> ToQubo(q)

\* C26: purity of the problem-model functions.  No step of a Canonicalize,
\* ToIsing or ToQubo call changes the entries or the order of its receiver;
\* a call that runs concurrently with other calls on the same Problem
\* returns what it returns alone, so two calls on equal inputs return equal
\* outputs.
C26_Purity ==
    [][/\ p' = p
       /\ \A t \in Threads :
             thr'[t].pc = "done" =>
                 [prob |-> thr'[t].out, ofs |-> thr'[t].ofs]
                     = Sequential(thr'[t].op, p)
       /\ \A t \in Threads, u \in Threads :
             (thr'[t].pc = "done" /\ thr'[u].pc = "done"
                 /\ thr'[t].op = thr'[u].op) =>
                 (thr'[t].out = thr'[u].out /\ thr'[t].ofs = thr'[u].ofs)]_vars

C26_Witness ==
    /\ Len(p) = 2
    /\ p[1].I > p[1].J
    /\ KeyBefore(KeyOf(p[2]), KeyOf(p[1]))
    /\ thr[1].pc = "done" /\ thr[1].op = "ToIsing"
    /\ thr[2].pc = "done" /\ thr[2].op = "ToIsing"
    /\ thr[1].out # p
    /\ thr[1].out = thr[2].out

\* C27: single-job await is the k=1 case of multi-job await.  j's
\* AwaitCompletion(t) and AwaitCompletion([j], 1, t) hand the same
\* arguments to sapi_awaitCompletion, return the same value (whether j is
\* Done as the call returns) and leave every job as it was.
C27_SingleIsMultiOfOne ==
    [][(AwaitReturn /\ Len(call.sps) = 1 /\ call.minDone = 1) =>
          /\ call.c = awaitSingleArgs(call.sps[1])
          /\ call.c = awaitMultiArgs(call.sps, 1)
          /\ ret'.value = (jobs[call.sps[1]].state = "Done")
          /\ jobs' = jobs]_vars

C27_Witness ==
    /\ ret.op = "AwaitMulti"
    /\ ret.n = 1
    /\ ret.minDone = 1
    /\ ret.value
    /\ ret.cause = "completed"
    /\ \E j \in Jobs : j # ret.job /\ jobs[j].state = "Submitted"

\* The operations that unmarshal a backend-owned output.
UnmarshalOps ==
    {"SolveIsing", "SolveQubo", "Result", "FindEmbedding", "EmbedProblem",
     "FixVariables", "ChimeraAdjacency", "HardwareAdjacency"}

\* The positions of the steps of s with the given acts.
StepsAt(s, acts) == {k \in 1 .. Len(s) : s[k].act \in acts}

\* C28: unmarshal copies, then releases.  On every successful SolveIsing,
\* SolveQubo, Result, FindEmbedding, EmbedProblem, FixVariables,
\* ChimeraAdjacency and HardwareAdjacency call, every read of the
\* backend-owned output comes before its release, the release happens
\* exactly once and before the call returns, and the Go value returned
\* holds no reference into backend memory: each field was copied.
C28_CopyThenRelease ==
    \A i \in 1 .. Len(mem) :
        (mem[i].op \in UnmarshalOps /\ mem[i].kind \in OutputKinds) =>
            LET s == mem[i].steps
            IN  /\ Cardinality(StepsAt(s, {"free"})) = 1
                /\ mem[i].frees = 1
                /\ \A r \in StepsAt(s, {"copy", "alias"}), f \in StepsAt(s, {"free"}) :
                      r < f
                /\ \A f \in StepsAt(s, {"free"}) : f < Len(s)
                /\ s[Len(s)].act = "return"
                /\ StepsAt(s, {"alias"}) = {}
                /\ {s[k].field : k \in StepsAt(s, {"copy"})}
                      = {fieldsOf(mem[i].kind)[k] : k \in 1 .. Len(fieldsOf(mem[i].kind))}

C28_Witness ==
    /\ ret.op = "HardwareAdjacency"
    /\ ret.err = NoError
    /\ \E i \in 1 .. Len(mem) :
          /\ mem[i].op = "SolveIsing" /\ mem[i].kind = "IsingResult"
          /\ mem[i].frees = 1
    /\ \E i \in 1 .. Len(mem) :
          /\ mem[i].op = "HardwareAdjacency" /\ mem[i].kind = "AdjacencyProblem"
          /\ mem[i].frees = 1
          /\ Len(mem[i].steps) = 3

\* ------------------------------------------------------------ UnembedAnswer
\* countQubits: the map `seen` after the loop over q[1..n], and its size.
RECURSIVE seenIOnly(_, _)
seenIOnly(q, n) == IF n = 0 THEN {} ELSE seenIOnly(q, n - 1) \cup {q[n].I}

RECURSIVE seen(_, _)
seen(q, n) == IF n = 0 THEN {} ELSE seen(q, n - 1) \cup {q[n].I, q[n].J}

countQubitsIOnly(q) == Cardinality(seenIOnly(q, Len(q)))
countQubits(q) == Cardinality(seen(q, Len(q)))

\* The solutions handed to UnembedAnswer: rows of equal length.  The values
\* of the cells play no part in what the wrapper does with them.
Matrices == UNION {[1 .. r -> [1 .. c -> {1}]] : r \in 0 .. MaxRows, c \in 0 .. MaxCols}

\* int8MatrixtoC evaluates len(array[0]): with no row the index is out of
\* range.
int8MatrixtoCPanics(array) == Len(array) = 0

\* What UnembedAnswer returns.  nv is countQubits of prob, cNew the number
\* of C ints it allocates for the backend's output, b the backend's status
\* and cNnew the number of rows the backend reports to have written; out is
\* the shape of the matrix cInt8MatrixToGo builds from cNew.
unembedReturn(solns, prob, b, cNnew) ==
    IF int8MatrixtoCPanics(solns)
    THEN [panic |-> TRUE, solns |-> solns, nv |-> 0, cNew |-> 0, err |-> NoError,
          out |-> [rows |-> 0, cols |-> 0]]
    ELSE LET nv == countQubits(prob)
         IN  [panic |-> FALSE, solns |-> solns, nv |-> nv,
              cNew |-> Len(solns) * nv,
              err |-> IF b.code # "OK" THEN newErrorf(b.code, b.msg) ELSE NoError,
              out |-> IF b.code # "OK" THEN [rows |-> 0, cols |-> 0]
                      ELSE [rows |-> cNnew, cols |-> nv]]

\* UnembedAnswer(solns, emb, broken, p).
CallUnembedAnswer ==
    /\ ops = <<>>
    /\ \E solns \in Matrices :
       \E b \in BackendFailures \cup {[code |-> "OK", msg |-> ""]} :
       \E cNnew \in 0 .. Len(solns) :
          /\ b.code # "OK" => cNnew = 0
          /\ res' = <<unembedReturn(solns, p, b, cNnew)>>
    /\ ops' = <<"UnembedAnswer">>
    /\ UNCHANGED <<p, thr, avars, mvars>>

NextUnembed == CallUnembedAnswer

SpecUnembed == InitProblem /\ [][NextUnembed]_vars

\* The distinct integers that occur as I or J in an entry of q.
VariablesOf(q) == {i \in Indices : \E k \in 1 .. Len(q) : i = q[k].I \/ i = q[k].J}

\* C29: variable count.  countQubits(p) is the number of distinct integers
\* that occur as I or J in an entry of p: 0 for the empty Problem, and the
\* same for every reordering of p, with any entries turned around or
\* repeated.  UnembedAnswer allocates its output buffer as len(solns) rows
\* of that many columns.
C29_VariableCount ==
    (ops = <<"UnembedAnswer">> /\ ~res[1].panic) =>
        /\ res[1].nv = Cardinality(VariablesOf(p))
        /\ p = <<>> => res[1].nv = 0
        /\ \A perm \in Permutations(1 .. Len(p)), turned \in SUBSET (1 .. Len(p)) :
              countQubits(Rearranged(p, perm, turned) \o p) = res[1].nv
        /\ res[1].cNew = Len(res[1].solns) * Cardinality(VariablesOf(p))

C29_Witness ==
    /\ ops = <<"UnembedAnswer">>
    /\ ~res[1].panic
    /\ Len(res[1].solns) = 2
    /\ Len(p) = 3
    /\ KeyOf(p[1]) = KeyOf(p[2]) /\ p[1].I # p[2].I
    /\ p[3].I = p[3].J
    /\ res[1].nv = 3
    /\ res[1].cNew = 6
    /\ res[1].out = [rows |-> 2, cols |-> 3]

\* C30: release ordering of dependent handles.  A remote Connection's
\* backend resource is never released before that of a Solver obtained from
\* it, and a Solver's backend resource is never released while a job
\* submitted through it is still live and not Done.
C30_ReleaseOrdering ==
    \A i \in 1 .. Len(mem), k \in 1 .. Len(mem) :
        /\ (mem[i].kind = "RemoteConnection" /\ mem[k].kind = "Solver"
               /\ mem[k].from = i /\ mem[i].frees > 0) => mem[k].frees > 0
        /\ (mem[i].kind = "Solver" /\ mem[k].kind = "SubmittedProblem"
               /\ mem[k].from = i /\ mem[i].frees > 0) =>
              (mem[k].frees > 0 \/ mem[k].done)

=============================================================================
